---------------------------- MODULE Spec2Model ----------------------------
(***************************************************************************)
(* The alias channel of television (crates/television/channels/alias.rs):  *)
(* a Channel owning a nucleo matcher, its last_pattern and the two cached  *)
(* counters, driven by find / results / get_result, with the matcher's     *)
(* background worker taking its own steps.                                 *)
(*                                                                         *)
(* Strings are sequences of one-character strings.  A u32 is kept at its   *)
(* real width as a pair <<hi, lo>> of 16-bit halves (value hi*2^16 + lo),  *)
(* so that num_entries + offset overflows exactly where the program's      *)
(* does.  Counts of items are small naturals and are converted at use.     *)
(***************************************************************************)
EXTENDS Integers, Sequences, FiniteSets, TLC

(***************************************************************************)
(* Bounds of the model.                                                    *)
(***************************************************************************)
MaxItems == 2
MaxSmall == 2
MaxReported == 3

(***************************************************************************)
(* u32 arithmetic (num_entries, offset, index are u32).                    *)
(***************************************************************************)
U16 == 65536

U32Of(k) == <<0, k>>

U32Max == <<U16 - 1, U16 - 1>>

U32Lt(a, b) == a[1] < b[1] \/ (a[1] = b[1] /\ a[2] < b[2])

U32Min(a, b) == IF U32Lt(b, a) THEN b ELSE a

\* a + b in u32: the wrapped sum and whether the mathematical sum overflowed
U32Add(a, b) ==
    LET lo == a[2] + b[2]
        hi == a[1] + b[1] + (lo \div U16)
    IN  [overflow |-> hi >= U16, value |-> <<hi % U16, lo % U16>>]

\* `x as usize` of a u32 known to be small (hi = 0)
AsUsize(a) == a[1] * U16 + a[2]

(***************************************************************************)
(* The haystack: aliases as get_raw_aliases and the parse in Channel::new  *)
(* deliver them, each a name and a value.                                  *)
(***************************************************************************)
Alias(n, v) == [name |-> n, value |-> v]

AliasPool ==
    << Alias(<<"a">>, <<"b">>),
       Alias(<<"b">>, <<"a">>),
       Alias(<<"a", "b">>, <<"$", "b">>) >>

\* the patterns the caller types
Patterns ==
    { <<>>, <<"a">>, <<"a", "$">>, <<"a", "$", "b">> }

\* str::starts_with
StartsWith(s, prefix) ==
    /\ Len(prefix) <= Len(s)
    /\ SubSeq(s, 1, Len(prefix)) = prefix

\* the matcher column pushed for an alias: name + value
Column(alias) == alias.name \o alias.value

(***************************************************************************)
(* The pattern as nucleo parses it on reparse (one atom here: the patterns *)
(* hold no whitespace, no '!', '^', '\'' and no uppercase): a trailing '$' *)
(* makes a postfix atom, anything else a fuzzy atom; an atom with an empty *)
(* needle is dropped, leaving the empty pattern.                           *)
(***************************************************************************)
ParseAtom(p) ==
    IF p # <<>> /\ p[Len(p)] = "$"
    THEN [kind |-> "postfix", needle |-> SubSeq(p, 1, Len(p) - 1)]
    ELSE [kind |-> "fuzzy", needle |-> p]

PatternIsEmpty(p) == ParseAtom(p).needle = <<>>

\* leftmost positions (1-based) of needle in hay as a subsequence, searching
\* from position `from`; <<0>> when there is none
RECURSIVE FuzzyPositions(_, _, _)
FuzzyPositions(needle, hay, from) ==
    IF needle = <<>> THEN <<>>
    ELSE LET hits == { k \in from..Len(hay) : hay[k] = Head(needle) }
         IN  IF hits = {} THEN <<0>>
             ELSE LET k == CHOOSE x \in hits : \A y \in hits : x <= y
                      rest == FuzzyPositions(Tail(needle), hay, k + 1)
                  IN  IF rest = <<0>> THEN <<0>> ELSE <<k>> \o rest

\* the positions (1-based) the atom matches in hay, <<0>> when it does not match
AtomPositions(atom, hay) ==
    IF atom.kind = "postfix"
    THEN IF /\ Len(atom.needle) <= Len(hay)
            /\ SubSeq(hay, Len(hay) - Len(atom.needle) + 1, Len(hay)) = atom.needle
         THEN [i \in 1..Len(atom.needle) |-> Len(hay) - Len(atom.needle) + i]
         ELSE <<0>>
    ELSE FuzzyPositions(atom.needle, hay, 1)

\* whether pattern p matches the alias's column
Matches(p, alias) ==
    PatternIsEmpty(p) \/ AtomPositions(ParseAtom(p), Column(alias)) # <<0>>

\* the score of a match: 16 per matched character, less the gaps between them
Score(p, alias) ==
    LET pos == AtomPositions(ParseAtom(p), Column(alias))
    IN  IF PatternIsEmpty(p) \/ pos = <<0>> THEN 0
        ELSE 16 * Len(pos) - (pos[Len(pos)] - pos[1] + 1 - Len(pos))

\* the matched column indices (0-based) the pattern reports for an item
Indices(p, alias) ==
    IF PatternIsEmpty(p) \/ ~Matches(p, alias) THEN <<>>
    ELSE LET pos == AtomPositions(ParseAtom(p), Column(alias))
         IN  [i \in 1..Len(pos) |-> pos[i] - 1]

(***************************************************************************)
(* State.                                                                  *)
(*   items          the haystack pushed through the injector in new()      *)
(*   last_pattern, result_count, total_count   the Channel's own fields    *)
(*   pattern, status  matcher.pattern: its text and its reparse status     *)
(*   canceled       the matcher's cancellation flag                        *)
(*   worker         the worker's state: running, was_canceled, item_count, *)
(*                  matches (item numbers), pattern                        *)
(*   job            the run spawned on the pool: its phase and the status  *)
(*                  it was spawned with                                    *)
(*   snapshot       the matcher's published snapshot                       *)
(*   pc, call, changed   the caller's position inside results, the call's  *)
(*                  arguments and the tick's `changed` so far              *)
(*   ret, gret      what results and get_result last returned              *)
(*   pg             history: the paging run results(n,0), results(n,n), .. *)
(*   matcher_lock   the process-wide MATCHER mutex results locks: "free",  *)
(*                  or "other" while another thread of the program (another *)
(*                  channel's results) holds it                            *)
(***************************************************************************)
VARIABLES items, last_pattern, result_count, total_count,
          pattern, status, canceled, worker, job, snapshot,
          pc, call, changed, ret, gret, pg, matcher_lock

vars == << items, last_pattern, result_count, total_count,
           pattern, status, canceled, worker, job, snapshot,
           pc, call, changed, ret, gret, pg, matcher_lock >>

chan == << last_pattern, result_count, total_count >>
engine == << pattern, status, canceled, worker, job, snapshot >>

\* every haystack of at most MaxItems distinct aliases of the pool
Haystacks ==
    UNION { { [i \in 1..k |-> AliasPool[f[i]]] :
                f \in { g \in [1..k -> 1..Len(AliasPool)] :
                          \A x, y \in 1..k : x # y => g[x] # g[y] } } :
            k \in 0..MaxItems }

SmallU32 == { U32Of(k) : k \in 0..MaxSmall }

\* the arguments the caller passes as num_entries, offset and index
U32Inputs == SmallU32 \cup {U32Max}

EmptySnapshot == [item_count |-> 0, matches |-> <<>>, pattern |-> <<>>]

CallOf(op, n, off, p, raw) == [op |-> op, n |-> n, off |-> off, p |-> p, raw |-> raw]

NoCall == CallOf("none", U32Of(0), U32Of(0), <<>>, <<>>)
NoRet == [kind |-> "none", entries |-> <<>>]
NoEntry == [name |-> <<>>, value |-> <<>>,
            name_match_ranges |-> <<>>, value_match_ranges |-> <<>>]
NoGet == [kind |-> "unset", entry |-> NoEntry]
PgOff == [state |-> "off", n |-> U32Of(0), next |-> U32Of(0), acc |-> <<>>]

\* no run on the pool
JobIdle == [phase |-> "idle", status |-> "Unchanged"]

\* the state Channel::new leaves, whatever the haystack
Constructed ==
    /\ last_pattern = <<>>
    /\ result_count = 0
    /\ total_count = 0
    /\ pattern = <<>>
    /\ status = "Unchanged"
    /\ canceled = FALSE
    /\ worker = [running |-> FALSE, was_canceled |-> FALSE, item_count |-> 0,
                 matches |-> <<>>, pattern |-> <<>>]
    /\ job = JobIdle
    /\ snapshot = EmptySnapshot
    /\ pc = "idle"
    /\ call = NoCall
    /\ changed = FALSE
    /\ ret = NoRet
    /\ gret = NoGet
    /\ pg = PgOff
    /\ matcher_lock = "free"

Init ==
    /\ items \in Haystacks
    /\ Constructed

(***************************************************************************)
(* find                                                                    *)
(***************************************************************************)
\* find without its guard: every call reparses
PatternAlwaysDiffers(p, last) == TRUE

\* the guard of find: the pattern differs from last_pattern
PatternDiffers(p, last) == p # last

\* the append hint find passes to reparse
AppendHint(p, last) == StartsWith(p, last)

\* the status reparse leaves: Update when the hint is given, no rescore is
\* pending and the previous pattern's last atom is not negative (none is here)
Reparse(old_status, append) ==
    IF append /\ old_status # "Rescore" THEN "Update" ELSE "Rescore"

Find(p) ==
    /\ pc = "idle"
    /\ call' = CallOf("find", U32Of(0), U32Of(0), p, <<>>)
    /\ IF PatternDiffers(p, last_pattern)
       THEN /\ status' = Reparse(status, AppendHint(p, last_pattern))
            /\ pattern' = p
            /\ last_pattern' = p
       ELSE UNCHANGED << status, pattern, last_pattern >>
    /\ ret' = NoRet
    /\ gret' = NoGet
    /\ pg' = PgOff
    /\ UNCHANGED << items, matcher_lock, result_count, total_count, canceled,
                    worker, job, snapshot, pc, changed >>

(***************************************************************************)
(* The worker's run, spawned by tick: it scores, then sorts.               *)
(***************************************************************************)
\* the order of the ranking: score descending, then shorter column, then
\* insertion order
RankBefore(p, i, j) ==
    LET si == Score(p, items[i])
        sj == Score(p, items[j])
        li == Len(Column(items[i]))
        lj == Len(Column(items[j]))
    IN  IF si # sj THEN si > sj
        ELSE IF li # lj THEN li < lj
        ELSE i < j

SortMatches(p, m) == SortSeq(m, LAMBDA i, j : RankBefore(p, i, j))

\* what Snapshot::update copies out of the worker
Publish(w) == [item_count |-> w.item_count, matches |-> w.matches,
               pattern |-> w.pattern]

\* the worker's candidates after scoring: the old matches (all processed
\* items on Rescore) that still match, then the new items that match
Scored(w, st) ==
    LET n == Len(items)
        base == IF st = "Rescore" THEN [i \in 1..w.item_count |-> i]
                ELSE w.matches
        kept == IF st = "Unchanged" THEN base
                ELSE SelectSeq(base, LAMBDA i : Matches(w.pattern, items[i]))
        fresh == SelectSeq([i \in 1..(n - w.item_count) |-> w.item_count + i],
                           LAMBDA i : Matches(w.pattern, items[i]))
    IN  kept \o fresh

WorkerScore ==
    /\ job.phase = "score"
    /\ IF PatternIsEmpty(worker.pattern)
       THEN /\ worker' = [worker EXCEPT !.running = TRUE, !.was_canceled = FALSE,
                             !.matches = [i \in 1..Len(items) |-> i],
                             !.item_count = Len(items)]
            /\ job' = JobIdle
       ELSE /\ worker' = [worker EXCEPT !.running = TRUE, !.was_canceled = FALSE,
                             !.matches = Scored(worker, job.status),
                             !.item_count = Len(items)]
            /\ job' = [job EXCEPT !.phase = "sort"]
    /\ UNCHANGED << items, matcher_lock, chan, pattern, status, canceled,
                    snapshot, pc, call, changed, ret, gret, pg >>

WorkerSort ==
    /\ job.phase = "sort"
    /\ IF canceled
       THEN worker' = [worker EXCEPT !.was_canceled = TRUE]
       ELSE worker' = [worker EXCEPT !.matches = SortMatches(worker.pattern, @)]
    /\ job' = JobIdle
    /\ UNCHANGED << items, matcher_lock, chan, pattern, status, canceled,
                    snapshot, pc, call, changed, ret, gret, pg >>

(***************************************************************************)
(* tick, as results calls it.  A tick whose pattern was reparsed cancels   *)
(* the run in flight and takes the worker's lock however long that takes,  *)
(* publishes, spawns the new run and ticks once more; any other tick tries *)
(* the lock for the timeout only.  The worker holds the lock while its job *)
(* is in a phase other than idle.  num_entries and offset are first read   *)
(* when the rank window is built, so the call record takes them there.     *)
(***************************************************************************)
\* the snapshot after a tick took the lock: updated from a worker that ran
\* and was not canceled
Snapshotted(w, snap) ==
    IF w.running /\ ~w.was_canceled THEN Publish(w) ELSE snap

\* the two counters read from each other's source
RefreshedCountsSwapped(ch, snap, rc, tc) ==
    IF ch THEN << snap.item_count, Len(snap.matches) >> ELSE << rc, tc >>

\* the counters reset on a tick that reports no change
RefreshedCountsReset(ch, snap, rc, tc) ==
    IF ch THEN << Len(snap.matches), snap.item_count >> ELSE << 0, 0 >>

\* a refresh that forgets total_count
RefreshedCountsNoTotal(ch, snap, rc, tc) ==
    IF ch THEN << Len(snap.matches), tc >> ELSE << rc, tc >>

\* the counters results caches after the tick (lines 129-132)
RefreshedCounts(ch, snap, rc, tc) ==
    IF ch THEN << Len(snap.matches), snap.item_count >> ELSE << rc, tc >>

ResultsBegin ==
    /\ pc = "idle"
    /\ call' = CallOf("results", U32Of(0), U32Of(0), <<>>, <<>>)
    /\ changed' = FALSE
    /\ ret' = NoRet
    /\ gret' = NoGet
    /\ IF status # "Unchanged"
       THEN /\ canceled' = TRUE
            /\ pc' = "tick_cancel"
       ELSE /\ canceled' = canceled
            /\ pc' = "tick"
    /\ UNCHANGED << items, matcher_lock, chan, pattern, status, worker, job,
                    snapshot, pg >>

TickCancel ==
    /\ pc = "tick_cancel"
    /\ job.phase = "idle"
    /\ changed' = worker.running
    /\ snapshot' = Snapshotted(worker, snapshot)
    /\ worker' = [worker EXCEPT !.running = FALSE, !.pattern = pattern]
    /\ job' = [phase |-> "score", status |-> status]
    /\ status' = "Unchanged"
    /\ canceled' = FALSE
    /\ pc' = "tick"
    /\ UNCHANGED << items, matcher_lock, chan, pattern, call, ret, gret, pg >>

TickLocked ==
    /\ pc = "tick"
    /\ job.phase = "idle"
    /\ LET ch == changed \/ worker.running
           snap == Snapshotted(worker, snapshot)
           more == Len(items) > worker.item_count
           counts == RefreshedCounts(ch, snap, result_count, total_count)
       IN  /\ changed' = ch
           /\ snapshot' = snap
           /\ worker' = [worker EXCEPT !.running = FALSE,
                                       !.pattern = IF more THEN pattern ELSE @]
           /\ job' = IF more THEN [phase |-> "score", status |-> "Unchanged"]
                     ELSE job
           /\ canceled' = IF more THEN FALSE ELSE canceled
           /\ result_count' = counts[1]
           /\ total_count' = counts[2]
    /\ pc' = "collect"
    /\ UNCHANGED << items, matcher_lock, last_pattern, pattern, status,
                    call, ret, gret, pg >>

TickTimeout ==
    /\ pc = "tick"
    /\ job.phase # "idle"
    /\ LET counts == RefreshedCounts(changed, snapshot, result_count, total_count)
       IN  /\ result_count' = counts[1]
           /\ total_count' = counts[2]
    /\ pc' = "collect"
    /\ UNCHANGED << items, matcher_lock, last_pattern, engine, call, changed,
                    ret, gret, pg >>

(***************************************************************************)
(* Materialising entries (results, lines 133-185).                         *)
(***************************************************************************)
\* bytes of a character in UTF-8, and String::len
CharWidth(c) == IF c = "e'" THEN 2 ELSE 1

RECURSIVE ByteLen(_)
ByteLen(s) == IF s = <<>> THEN 0 ELSE CharWidth(Head(s)) + ByteLen(Tail(s))

\* sort_unstable followed by dedup
RECURSIVE SortedSeqOf(_)
SortedSeqOf(S) ==
    IF S = {} THEN <<>>
    ELSE LET m == CHOOSE x \in S : \A y \in S : x <= y
         IN  <<m>> \o SortedSeqOf(S \ {m})

SortDedup(s) == SortedSeqOf({ s[k] : k \in 1..Len(s) })

\* sep_name_and_value_indices: the buffer is drained, an index below
\* name_len goes to the name, any other to the value, less name_len
SepNameAndValueIndices(indices, name_len) ==
    LET ni == SelectSeq(indices, LAMBDA i : i < name_len)
        vi == SelectSeq(indices, LAMBDA i : i >= name_len)
    IN  [name_indices |-> SortDedup(ni),
         value_indices |-> SortDedup([k \in 1..Len(vi) |-> vi[k] - name_len]),
         should_add_name_indices |-> ni # <<>>,
         should_add_value_indices |-> vi # <<>>,
         drained |-> <<>>]

\* the name length taken from the value
NameLenOfValue(alias) == ByteLen(alias.value)

\* the name length results hands to sep_name_and_value_indices (line 159)
NameLen(alias) == ByteLen(alias.name)

\* an index i becomes the range (i, i + 1) (lines 169, 176-177)
RangesOf(idx) == [k \in 1..Len(idx) |-> << idx[k], idx[k] + 1 >>]

\* Entry::new(name).with_value(value): no match ranges
PlainEntry(alias) ==
    [name |-> alias.name, value |-> alias.value,
     name_match_ranges |-> <<>>, value_match_ranges |-> <<>>]

\* a pass that hands sep_name_and_value_indices a copy of the buffer, leaving
\* the item's indices in the buffer for the next item
EntryOfKeepsBuffer(alias, reported, buf) ==
    LET col_indices == SortDedup(buf \o reported)
        sep == SepNameAndValueIndices(col_indices, NameLen(alias))
    IN  [entry |->
            [name |-> alias.name, value |-> alias.value,
             name_match_ranges |->
                IF sep.should_add_name_indices
                THEN RangesOf(sep.name_indices) ELSE <<>>,
             value_match_ranges |->
                IF sep.should_add_value_indices
                THEN RangesOf(sep.value_indices) ELSE <<>>],
         buf |-> col_indices]

\* one pass of the closure of results over an item: `reported` is what the
\* pattern's indices() appends to the buffer `buf`; gives the entry and the
\* buffer left for the next item
EntryOf(alias, reported, buf) ==
    LET col_indices == SortDedup(buf \o reported)
        sep == SepNameAndValueIndices(col_indices, NameLen(alias))
    IN  [entry |->
            [name |-> alias.name, value |-> alias.value,
             name_match_ranges |->
                IF sep.should_add_name_indices
                THEN RangesOf(sep.name_indices) ELSE <<>>,
             value_match_ranges |->
                IF sep.should_add_value_indices
                THEN RangesOf(sep.value_indices) ELSE <<>>],
         buf |-> sep.drained]

\* the entries of the items numbered ids, in order, sharing one buffer
RECURSIVE Materialize(_, _, _)
Materialize(ids, p, buf) ==
    IF ids = <<>> THEN <<>>
    ELSE LET alias == items[Head(ids)]
             one == EntryOf(alias, Indices(p, alias), buf)
         IN  <<one.entry>> \o Materialize(Tail(ids), p, one.buf)

\* a view that reads the worker's live state instead of the published one
SnapshotViewLive == Publish(worker)

\* matcher.snapshot(): the view results and get_result read
SnapshotView == snapshot

\* the window one rank short at its end
WindowShort(n, off, count, overflow_checks) ==
    LET sum == U32Add(n, off)
        end == U32Min(sum.value, U32Of(IF count > 0 THEN count - 1 ELSE 0))
    IN  IF sum.overflow /\ overflow_checks
        THEN [panic |-> TRUE, start |-> 0, end |-> 0]
        ELSE IF U32Lt(end, off)
        THEN [panic |-> TRUE, start |-> 0, end |-> 0]
        ELSE [panic |-> FALSE, start |-> AsUsize(off), end |-> AsUsize(end)]

\* the rank window offset..min(num_entries + offset, matched_item_count) and
\* matched_items on it: the sum panics in a build with overflow checks and
\* wraps in one without; slicing panics when the window starts after its end
Window(n, off, count, overflow_checks) ==
    LET sum == U32Add(n, off)
        end == U32Min(sum.value, U32Of(count))
    IN  IF sum.overflow /\ overflow_checks
        THEN [panic |-> TRUE, start |-> 0, end |-> 0]
        ELSE IF U32Lt(end, off)
        THEN [panic |-> TRUE, start |-> 0, end |-> 0]
        ELSE [panic |-> FALSE, start |-> AsUsize(off), end |-> AsUsize(end)]

NamesOf(entries) == [k \in 1..Len(entries) |-> entries[k].name]

\* the paging run after a results call returned `out` (history)
PagingAfter(n, off, out) ==
    LET starting == off = U32Of(0) /\ U32Lt(U32Of(0), n)
        continuing == /\ pg.state = "open"
                      /\ n = pg.n
                      /\ off = pg.next
                      /\ ~changed
        acc == IF starting THEN <<>> ELSE pg.acc
        next == U32Add(off, n)
    IN  IF ~(starting \/ continuing) THEN PgOff
        ELSE IF out.kind = "panic"
        THEN [state |-> "panic", n |-> n, next |-> off, acc |-> acc]
        ELSE IF out.entries = <<>>
        THEN [state |-> "complete", n |-> n, next |-> off, acc |-> acc]
        ELSE IF next.overflow THEN PgOff
        ELSE [state |-> "open", n |-> n, next |-> next.value,
              acc |-> acc \o NamesOf(out.entries)]

ResultsCollect(num_entries, offset) ==
    /\ pc = "collect"
    /\ matcher_lock = "free"
    /\ call' = CallOf("results", num_entries, offset, <<>>, <<>>)
    /\ \E overflow_checks \in BOOLEAN :
       LET snap == SnapshotView
           w == Window(num_entries, offset, Len(snap.matches), overflow_checks)
           out == IF w.panic THEN [kind |-> "panic", entries |-> <<>>]
                  ELSE [kind |-> "ok",
                        entries |-> Materialize(
                            SubSeq(snap.matches, w.start + 1, w.end),
                            snap.pattern, <<>>)]
       IN  /\ ret' = out
           /\ pc' = IF w.panic THEN "panicked" ELSE "idle"
           /\ pg' = PagingAfter(num_entries, offset, out)
    /\ changed' = FALSE
    /\ UNCHANGED << items, matcher_lock, chan, engine, gret >>

(***************************************************************************)
(* get_result                                                              *)
(***************************************************************************)
\* get_result indexing the haystack instead of the ranking
GetUnrankedItem(snap, index) ==
    IF U32Lt(index, U32Of(Len(snap.matches)))
    THEN [kind |-> "some", entry |-> PlainEntry(items[AsUsize(index) + 1])]
    ELSE [kind |-> "none", entry |-> NoEntry]

\* Snapshot::get_matched_item: the item at rank index, none out of range
GetMatchedItem(snap, index) ==
    IF U32Lt(index, U32Of(Len(snap.matches)))
    THEN [kind |-> "some", entry |-> PlainEntry(items[snap.matches[AsUsize(index) + 1]])]
    ELSE [kind |-> "none", entry |-> NoEntry]

GetResult(index) ==
    /\ pc = "idle"
    /\ call' = CallOf("get_result", U32Of(0), index, <<>>, <<>>)
    /\ gret' = GetMatchedItem(SnapshotView, index)
    /\ ret' = NoRet
    /\ pg' = PgOff
    /\ UNCHANGED << items, matcher_lock, chan, engine, pc, changed >>

(***************************************************************************)
(* Another thread of the program locking and unlocking MATCHER.            *)
(***************************************************************************)
OtherLocks ==
    /\ matcher_lock = "free"
    /\ matcher_lock' = "other"
    /\ UNCHANGED << items, chan, engine, pc, call, changed, ret, gret, pg >>

OtherUnlocks ==
    /\ matcher_lock = "other"
    /\ matcher_lock' = "free"
    /\ UNCHANGED << items, chan, engine, pc, call, changed, ret, gret, pg >>

(***************************************************************************)
(* The channel with its worker.                                            *)
(***************************************************************************)
Next ==
    \/ \E p \in Patterns : Find(p)
    \/ ResultsBegin
    \/ TickCancel
    \/ TickLocked
    \/ TickTimeout
    \/ \E n \in U32Inputs, off \in U32Inputs : ResultsCollect(n, off)
    \/ \E index \in U32Inputs : GetResult(index)
    \/ WorkerScore
    \/ WorkerSort
    \/ OtherLocks
    \/ OtherUnlocks

Spec == Init /\ [][Next]_vars

(***************************************************************************)
(* The channel over a haystack parsed from raw alias lines ("name=value"), *)
(* as Channel::new parses what get_raw_aliases returns: the scenario of    *)
(* the two aliases ll and gs.                                              *)
(***************************************************************************)
\* position of the first '=' in s from position `from` on, 0 when there is none
FirstEq(s, from) ==
    LET hits == { k \in from..Len(s) : s[k] = "=" }
    IN  IF hits = {} THEN 0 ELSE CHOOSE x \in hits : \A y \in hits : x <= y

\* a parse that keeps the '=' at the head of the value
ParseAliasKeepsEq(raw) ==
    LET e1 == FirstEq(raw, 1)
    IN  Alias(SubSeq(raw, 1, e1 - 1), SubSeq(raw, e1, Len(raw)))

\* alias.split('='): the name is the first part, the value the second (what
\* follows a second '=' is dropped); raw holds a '='
ParseAlias(raw) ==
    LET e1 == FirstEq(raw, 1)
        e2 == FirstEq(raw, e1 + 1)
    IN  Alias(SubSeq(raw, 1, e1 - 1),
              SubSeq(raw, e1 + 1, IF e2 = 0 THEN Len(raw) ELSE e2 - 1))

RawLL == << "l", "l", "=", "l", "s", " ", "-", "l", "a" >>
RawGS == << "g", "s", "=", "g", "i", "t", " ", "s", "t", "a", "t", "u", "s" >>

\* what get_raw_aliases returns, in either order
RawAliasLists == { << RawLL, RawGS >>, << RawGS, RawLL >> }

LLPatterns == { <<>>, <<"l">>, <<"l", "l">> }

LLInit ==
    /\ \E raws \in RawAliasLists :
          items = [k \in 1..Len(raws) |-> ParseAlias(raws[k])]
    /\ Constructed

LLNext ==
    \/ \E p \in LLPatterns : Find(p)
    \/ ResultsBegin
    \/ TickCancel
    \/ TickLocked
    \/ TickTimeout
    \/ \E n \in {U32Of(1), U32Of(10)}, off \in {U32Of(0), U32Of(1)} :
          ResultsCollect(n, off)
    \/ \E index \in {U32Of(0), U32Of(1)} : GetResult(index)
    \/ WorkerScore
    \/ WorkerSort

SpecLL == LLInit /\ [][LLNext]_vars

(***************************************************************************)
(* shutdown.  OnAir declares it (channels.rs, fn shutdown(&self)); the     *)
(* alias channel's own body is not part of alias.rs, so it is taken from   *)
(* the design: it signals the pool's workers to stop, whatever run is in   *)
(* flight is abandoned, and it returns nothing.  It borrows the channel    *)
(* shared, so it is called between the other calls, never inside results.  *)
(***************************************************************************)
JobStopped == [phase |-> "stopped", status |-> "Unchanged"]

\* a shutdown that starts the pool again when it finds it stopped
ShutdownToggles ==
    /\ pc \in {"idle", "panicked"}
    /\ call' = CallOf("shutdown", U32Of(0), U32Of(0), <<>>, <<>>)
    /\ job' = IF job = JobStopped THEN JobIdle ELSE JobStopped
    /\ UNCHANGED << items, matcher_lock, chan, pattern, status, canceled,
                    worker, snapshot, pc, changed, ret, gret, pg >>

Shutdown ==
    /\ pc \in {"idle", "panicked"}
    /\ call' = CallOf("shutdown", U32Of(0), U32Of(0), <<>>, <<>>)
    /\ job' = JobStopped
    /\ UNCHANGED << items, matcher_lock, chan, pattern, status, canceled,
                    worker, snapshot, pc, changed, ret, gret, pg >>

ShutdownNext ==
    \/ LLNext
    \/ Shutdown

SpecShutdown == LLInit /\ [][ShutdownNext]_vars

(***************************************************************************)
(* Materialising one entry from whatever indices the engine may report     *)
(* over the item's column: any sequence of character positions of the      *)
(* column, in any order, with repetitions.  The names here also hold a     *)
(* character of two bytes, written "e'".                                   *)
(***************************************************************************)
HLAliases ==
    { Alias(n, v) : n \in { <<"a">>, <<"e'">>, <<"a", "e'">> },
                    v \in { <<>>, <<"b">>, <<"e'", "b">> } }

\* sequences of at most MaxReported character positions of the column
ReportedIndices(alias) ==
    UNION { [1..k -> 0..(Len(Column(alias)) - 1)] : k \in 0..MaxReported }

HLInit ==
    /\ items \in { <<a>> : a \in HLAliases }
    /\ Constructed

Highlight(raw) ==
    /\ call' = CallOf("entry", U32Of(0), U32Of(0), <<>>, raw)
    /\ ret' = [kind |-> "ok", entries |-> << EntryOf(items[1], raw, <<>>).entry >>]
    /\ UNCHANGED << items, matcher_lock, chan, engine, pc, changed, gret, pg >>

HLNext == \E raw \in ReportedIndices(items[1]) : Highlight(raw)

SpecHL == HLInit /\ [][HLNext]_vars

(***************************************************************************)
(* TelevisionChannel from the name of an entry (channels.rs, TryFrom).     *)
(***************************************************************************)
LowerCase == << "a", "b", "c", "d", "e", "f", "g", "h", "i", "j", "k", "l", "m", "n", "o", "p", "q", "r", "s", "t", "u", "v", "w", "x", "y", "z" >>
UpperCase == << "A", "B", "C", "D", "E", "F", "G", "H", "I", "J", "K", "L", "M", "N", "O", "P", "Q", "R", "S", "T", "U", "V", "W", "X", "Y", "Z" >>

\* u8::to_ascii_lowercase on a character: 'A'..'Z' to 'a'..'z', any other
\* character as it is
CharToAsciiLowercase(c) ==
    IF \E k \in 1..Len(UpperCase) : UpperCase[k] = c
    THEN LowerCase[CHOOSE k \in 1..Len(UpperCase) : UpperCase[k] = c]
    ELSE c

\* a lowercasing that does nothing
KeptAsGiven(s) == s

\* str::to_ascii_lowercase
ToAsciiLowercase(s) == [i \in 1..Len(s) |-> CharToAsciiLowercase(s[i])]

UnknownChannel == << "U", "n", "k", "n", "o", "w", "n", " ", "c", "h", "a", "n", "n", "e", "l", ":", " " >>

\* the match of try_from: the variant for a known name, else the error
\* format!("Unknown channel: {}", entry.name)
TryFrom(name) ==
    LET key == ToAsciiLowercase(name)
    IN  IF key = << "e", "n", "v" >> THEN [kind |-> "Ok", entries |-> <<"Env">>]
        ELSE IF key = << "f", "i", "l", "e", "s" >> THEN [kind |-> "Ok", entries |-> <<"Files">>]
        ELSE IF key = << "g", "i", "t", "r", "e", "p", "o", "s" >> THEN [kind |-> "Ok", entries |-> <<"GitRepos">>]
        ELSE IF key = << "t", "e", "x", "t" >> THEN [kind |-> "Ok", entries |-> <<"Text">>]
        ELSE IF key = << "s", "t", "d", "i", "n" >> THEN [kind |-> "Ok", entries |-> <<"Stdin">>]
        ELSE IF key = << "a", "l", "i", "a", "s" >> THEN [kind |-> "Ok", entries |-> <<"Alias">>]
        ELSE [kind |-> "Err", entries |-> UnknownChannel \o name]

\* every spelling in upper and lower case of a word s of lower-case letters
Spellings(s) ==
    { [i \in 1..Len(s) |->
          IF i \in U
          THEN UpperCase[CHOOSE k \in 1..Len(LowerCase) : LowerCase[k] = s[i]]
          ELSE s[i]] : U \in SUBSET (1..Len(s)) }

\* the names entries are given: every spelling of some channel names, and
\* names that are no channel's
EntryNames ==
    Spellings(<< "e", "n", "v" >>) \cup Spellings(<< "f", "i", "l", "e", "s" >>) \cup Spellings(<< "t", "e", "x", "t" >>)
        \cup Spellings(<< "s", "t", "d", "i", "n" >>) \cup Spellings(<< "a", "l", "i", "a", "s" >>)
        \cup { << "g", "i", "t", "r", "e", "p", "o", "s" >>, << "G", "i", "t", "R", "e", "p", "o", "s" >>, << "G", "I", "T", "R", "E", "P", "O", "S" >>, << "b", "o", "g", "u", "s" >>,
               << "B", "o", "g", "u", "s" >>, <<>>, << "r", "e", "m", "o", "t", "e", "c", "o", "n", "t", "r", "o", "l" >>,
               << "e", "n", "v", "s" >>, << "g", "i", "t", "_", "r", "e", "p", "o", "s" >>, << "e", "n" >> }

KeyInit ==
    /\ items = <<>>
    /\ Constructed

TryFromEntry(name) ==
    /\ call' = CallOf("try_from", U32Of(0), U32Of(0), name, <<>>)
    /\ ret' = TryFrom(name)
    /\ UNCHANGED << items, matcher_lock, chan, engine, pc, changed, gret, pg >>

KeyNext == \E name \in EntryNames : TryFromEntry(name)

SpecKey == KeyInit /\ [][KeyNext]_vars

(***************************************************************************)
(* Properties.                                                             *)
(***************************************************************************)
\* a results call has returned (or aborted) and its outcome is in ret
ResultsReturned == call.op = "results" /\ pc \in {"idle", "panicked"}

\* C1: for any num_entries n and any offset < result_count(), results(n,
\* offset) returns exactly min(n, result_count() - offset) entries, with
\* result_count() as reported after the call.
ResultsCountExact ==
    (ResultsReturned /\ U32Lt(call.off, U32Of(result_count)))
        => /\ ret.kind = "ok"
           /\ Len(ret.entries) =
                AsUsize(U32Min(call.n, U32Of(result_count - AsUsize(call.off))))

\* C2: for any n and any offset >= result_count(), results(n, offset)
\* returns the empty sequence and does not panic.
OffsetPastEndIsEmpty ==
    (ResultsReturned /\ ~U32Lt(call.off, U32Of(result_count)))
        => /\ ret.kind = "ok"
           /\ ret.entries = <<>>

\* C3: on a frozen snapshot, for any page size n >= 1, the pages results(n,
\* 0), results(n, n), results(n, 2n), ... up to the first empty page are all
\* returned and their concatenation is the full ranked list of matched
\* items, each exactly once and in rank order.
PagingReconstructs ==
    pc \in {"idle", "panicked"}
        => /\ pg.state # "panic"
           /\ pg.state = "complete"
                => pg.acc = [k \in 1..Len(snapshot.matches) |->
                                items[snapshot.matches[k]].name]

\* the matcher has nothing left to do for last_pattern and its result is
\* published
Converged ==
    /\ pc = "idle"
    /\ job.phase = "idle"
    /\ status = "Unchanged"
    /\ ~worker.running
    /\ worker.item_count = Len(items)
    /\ snapshot.item_count = Len(items)
    /\ snapshot.pattern = last_pattern

\* the items a full rescan of the haystack matches against p
FullScan(p) == { i \in 1..Len(items) : Matches(p, items[i]) }

\* C4: the fully converged set of matched items for the last pattern is the
\* set a full rescan for that pattern gives, also when it was reached by
\* find(p0) followed by find(p) with p0 a prefix of p (append hint true).
NarrowingEqualsRescan ==
    Converged
        => { snapshot.matches[k] : k \in 1..Len(snapshot.matches) }
             = FullScan(last_pattern)

\* C5: find(p) with p equal to last_pattern reparses nothing, schedules no
\* scoring work and changes no state of the channel or its matcher, so
\* every later results / get_result call sees what it would have seen
\* without the repeated find.
FindIdempotent ==
    [][ \A p \in Patterns :
          (p = last_pattern /\ Find(p)) => UNCHANGED << items, chan, engine, pc >>
      ]_vars

\* a find repeated on a matcher that already took up the (non-empty) pattern
FindRepeated ==
    /\ call.op = "find"
    /\ call.p = last_pattern
    /\ last_pattern # <<>>
    /\ status = "Unchanged"
    /\ worker.pattern = last_pattern

\* C6: result_count() <= total_count() in every reachable state.
CountsOrdered == result_count <= total_count

\* some items of the haystack match and some do not
CountsStrictlyOrdered == 0 < result_count /\ result_count < total_count

\* C7: total_count() never decreases.
TotalCountMonotone == [][ total_count' >= total_count ]_vars

\* the count has grown and a later tick reported no change
TotalCountKept ==
    /\ total_count = Len(items)
    /\ total_count >= 2
    /\ call.op = "results"
    /\ pc = "idle"
    /\ job.phase # "idle"

\* a get_result call is made in this step
GetResultStep == call'.op = "get_result" /\ call' # call

\* C8: get_result(index) returns none exactly when index >= result_count(),
\* and otherwise the entry of the item results places at rank index: called
\* right after a results call whose window holds that rank, it returns that
\* call's entry (same name and value) at the rank.
GetResultRanked ==
    [][ GetResultStep =>
          /\ (gret'.kind = "none") <=> ~U32Lt(call'.off, U32Of(result_count'))
          /\ gret'.kind \in {"none", "some"}
          /\ ( /\ call.op = "results"
               /\ ret.kind = "ok"
               /\ ~U32Lt(call'.off, call.off)
               /\ U32Lt(call'.off, U32Add(call.off, U32Of(Len(ret.entries))).value)
             ) => LET e == ret.entries[AsUsize(call'.off) - AsUsize(call.off) + 1]
                  IN  /\ gret'.kind = "some"
                      /\ gret'.entry.name = e.name
                      /\ gret'.entry.value = e.value
      ]_vars

\* get_result returned an item whose rank is not its place in the haystack
GetResultRankedItem ==
    /\ call.op = "get_result"
    /\ gret.kind = "some"
    /\ snapshot.matches[AsUsize(call.off) + 1] # AsUsize(call.off) + 1

\* the order of a completed pass for pattern p: insertion order for the
\* empty pattern, rank order otherwise
PassOrder(p, i, j) == IF PatternIsEmpty(p) THEN i < j ELSE RankBefore(p, i, j)

\* m is the outcome of a completed scoring pass for p over the first k items
IsCompletedPass(m, p, k) ==
    /\ \A x \in 1..Len(m) : m[x] \in 1..k /\ Matches(p, items[m[x]])
    /\ \A x, y \in 1..Len(m) : x < y => PassOrder(p, m[x], m[y])

\* C9: what results and get_result return is read from one published
\* snapshot, which is the outcome of a completed scoring pass: results
\* returns a contiguous rank slice of it, get_result the item at its rank,
\* whatever the worker is doing meanwhile.
ReadsOnePublishedPass ==
    /\ IsCompletedPass(snapshot.matches, snapshot.pattern, snapshot.item_count)
    /\ (pc = "idle" /\ ret.kind = "ok")
         => /\ AsUsize(call.off) + Len(ret.entries) <= Len(snapshot.matches)
            /\ \A k \in 1..Len(ret.entries) :
                 ret.entries[k].name
                   = items[snapshot.matches[AsUsize(call.off) + k]].name
    /\ (pc = "idle" /\ gret.kind = "some")
         => gret.entry.name = items[snapshot.matches[AsUsize(call.off) + 1]].name

\* results returned entries while the worker was in the middle of a pass
\* whose candidates differ from the published ranking
ReadDuringPass ==
    /\ pc = "idle"
    /\ ret.kind = "ok"
    /\ Len(ret.entries) >= 2
    /\ job.phase = "sort"
    /\ worker.matches # snapshot.matches

\* the ranges lie within [0, len), ascending and pairwise disjoint
RangesValid(r, len) ==
    /\ \A k \in 1..Len(r) : 0 <= r[k][1] /\ r[k][1] < r[k][2] /\ r[k][2] <= len
    /\ \A k, l \in 1..Len(r) : k < l => r[k][2] <= r[l][1]

Settled ==
    /\ job.phase = "idle"
    /\ status = "Unchanged"
    /\ ~worker.running
    /\ worker.item_count = Len(items)
    /\ snapshot.item_count = Len(items)
    /\ snapshot.pattern = last_pattern

\* C11: with the empty pattern and the matcher converged, results(n, 0)
\* returns the first min(n, total) items of the haystack in insertion order
\* and result_count() = total_count() (the size of the haystack), on a fresh
\* channel as after earlier non-empty patterns.
EmptyPatternListsHaystack ==
    (ResultsReturned /\ Settled /\ last_pattern = <<>> /\ call.off = U32Of(0))
        => /\ ret.kind = "ok"
           /\ ret.entries =
                [k \in 1..AsUsize(U32Min(call.n, U32Of(Len(items)))) |->
                    PlainEntry(items[k])]
           /\ result_count = total_count
           /\ total_count = Len(items)

\* the whole of a haystack whose insertion order is not its order by length
\* was returned for the empty pattern
EmptyPatternWholeHaystack ==
    /\ ResultsReturned /\ Settled /\ last_pattern = <<>> /\ call.off = U32Of(0)
    /\ Len(items) = 2
    /\ Len(Column(items[1])) > Len(Column(items[2]))
    /\ Len(ret.entries) = 2

\* the positions the ranges cover
Covered(r) == { k \in 0..20 : \E x \in 1..Len(r) : r[x][1] <= k /\ k < r[x][2] }

\* C12: with the raw aliases "ll=ls -la" and "gs=git status" ingested and the
\* pattern "ll" converged, results(10, 0) returns exactly one entry, of name
\* "ll" and value "ls -la", whose name_match_ranges are not empty and cover
\* the positions 0 to 2.
AliasScenarioLL ==
    ( /\ ResultsReturned /\ Settled
      /\ last_pattern = <<"l", "l">>
      /\ call.n = U32Of(10) /\ call.off = U32Of(0) )
        => /\ ret.kind = "ok"
           /\ Len(ret.entries) = 1
           /\ ret.entries[1].name = <<"l", "l">>
           /\ ret.entries[1].value = <<"l", "s", " ", "-", "l", "a">>
           /\ ret.entries[1].name_match_ranges # <<>>
           /\ Covered(ret.entries[1].name_match_ranges) = {0, 1}

\* results(10, 0) returned for the converged pattern "ll"
AliasScenarioReturned ==
    /\ ResultsReturned /\ Settled
    /\ last_pattern = <<"l", "l">>
    /\ call.n = U32Of(10) /\ call.off = U32Of(0)
    /\ Len(ret.entries) = 1

\* the table of channel names and the variants they stand for
ChannelTable ==
    { << << "e", "n", "v" >>, "Env" >>, << << "f", "i", "l", "e", "s" >>, "Files" >>, << << "g", "i", "t", "r", "e", "p", "o", "s" >>, "GitRepos" >>,
      << << "t", "e", "x", "t" >>, "Text" >>, << << "s", "t", "d", "i", "n" >>, "Stdin" >>, << << "a", "l", "i", "a", "s" >>, "Alias" >> }

\* a and b are the same letter, in whichever case
SameLetter(a, b) ==
    \E k \in 1..26 : {a, b} \subseteq {LowerCase[k], UpperCase[k]}

\* a and b are equal but for the case of their letters
EqualIgnoringCase(a, b) ==
    /\ Len(a) = Len(b)
    /\ \A i \in 1..Len(a) : a[i] = b[i] \/ SameLetter(a[i], b[i])

\* C13: a TelevisionChannel is constructed from a name exactly when the
\* name, compared without regard to case, is one of env, files, gitrepos,
\* text, stdin, alias, and then it is the variant of that name; for any other
\* name the outcome is an error value "Unknown channel: " followed by the
\* name as it was given.
ChannelFromKey ==
    call.op = "try_from"
        => /\ ret.kind \in {"Ok", "Err"}
           /\ (ret.kind = "Ok")
                <=> \E t \in ChannelTable : EqualIgnoringCase(call.p, t[1])
           /\ ret.kind = "Ok"
                => \E t \in ChannelTable :
                     /\ EqualIgnoringCase(call.p, t[1])
                     /\ ret.entries = << t[2] >>
           /\ ret.kind = "Err" => ret.entries = UnknownChannel \o call.p

\* a channel was constructed from a name not spelled in lower case
ChannelFromMixedCase ==
    /\ call.op = "try_from"
    /\ ret.kind = "Ok"
    /\ \A t \in ChannelTable : call.p # t[1]

\* the caller's next step inside results once the tick is behind it or before
\* the tick takes the worker's lock untimed
CallerStep ==
    \/ TickCancel
    \/ \E n \in U32Inputs, off \in U32Inputs : ResultsCollect(n, off)

\* C14: results and get_result make the caller wait only in the timed tick:
\* at every other point inside results the caller's next step can be taken at
\* once, whatever the worker and the other threads are doing, and get_result
\* can always be taken at once.
WaitsOnlyInTick ==
    /\ pc \in {"tick_cancel", "collect"} => ENABLED CallerStep
    /\ pc = "idle" => ENABLED (\E index \in U32Inputs : GetResult(index))

GetResultHighlights ==
    [][ ( /\ GetResultStep
          /\ call.op = "results"
          /\ ret.kind = "ok"
          /\ ~U32Lt(call'.off, call.off)
          /\ U32Lt(call'.off, U32Add(call.off, U32Of(Len(ret.entries))).value)
        ) => LET e == ret.entries[AsUsize(call'.off) - AsUsize(call.off) + 1]
             IN  /\ gret'.kind = "some"
                 /\ gret'.entry.name_match_ranges = e.name_match_ranges
                 /\ gret'.entry.value_match_ranges = e.value_match_ranges
      ]_vars

\* C17: the counters are written only by a tick that reports a change: a
\* step that changes result_count or total_count is the end of the tick of a
\* results call, with changed true; a results call whose tick reports no
\* change, find and get_result leave both as they were.
CountersWrittenOnChange ==
    [][ << result_count, total_count >>' # << result_count, total_count >>
          => /\ call.op = "results"
             /\ pc = "tick"
             /\ pc' = "collect"
             /\ changed'
      ]_vars

\* a tick reported no change on a channel whose counters are not zero
UnchangedTickKeepsCounts ==
    /\ pc = "collect"
    /\ ~changed
    /\ result_count > 0
    /\ result_count < total_count

\* C18: between calls, and once the tick of a results call is over, the
\* cached counters are those of the matcher's published snapshot:
\* result_count() its matched-item count and total_count() its item count,
\* from construction (both 0) on.
CountersMatchSnapshot ==
    pc \in {"idle", "collect", "panicked"}
        => /\ result_count = Len(snapshot.matches)
           /\ total_count = snapshot.item_count

\* the counters agree with a published snapshot that is older than what the
\* worker has computed since
CountersOfPublishedSnapshot ==
    /\ pc = "idle"
    /\ 0 < result_count
    /\ result_count < total_count
    /\ worker.running
    /\ worker.matches # snapshot.matches

\* C19: the end of the rank window is min(num_entries + offset, matched
\* count) with the mathematical sum: when num_entries + offset exceeds
\* 2^32 - 1 the call neither fails nor wraps, and returns the entries from
\* rank offset to the end of the matches.
WindowSumExact ==
    (ResultsReturned /\ U32Add(call.n, call.off).overflow)
        => /\ ret.kind = "ok"
           /\ LET count == Len(snapshot.matches)
                  from == IF U32Lt(call.off, U32Of(count))
                          THEN AsUsize(call.off) ELSE count
              IN  ret.entries =
                    [k \in 1..(count - from) |->
                        EntryOf(items[snapshot.matches[from + k]],
                                Indices(snapshot.pattern,
                                        items[snapshot.matches[from + k]]),
                                <<>>).entry]

=============================================================================
